---- MODULE Spec2Model ----
(***************************************************************************)
(* Model of the Aardvark Any Importer addon (aardvark_any_importer.py).    *)
(*                                                                         *)
(* Python strings are modelled as sequences of character codes, so that    *)
(* splitext, endswith, replace, lower, split, join and sorted are computed *)
(* character by character as Python computes them.  The code of each       *)
(* literal is given next to it in a comment.                               *)
(*                                                                         *)
(* The state is the preference collection prefs.file_extensions, the       *)
(* module-level import_queue, and the operator instance that has just      *)
(* returned: its return value, its self.report calls and, for the import   *)
(* operator, its self.files and the calls it made to host operators.  The  *)
(* host runs one operator at a time and builds a fresh instance for every  *)
(* invocation, so an invocation starts when no instance is held.           *)
(***************************************************************************)
EXTENDS Integers, Sequences, FiniteSets, TLC

VARIABLES
    file_extensions,  \* prefs.file_extensions: sequence of FileAssociation
    import_queue,     \* module global import_queue (line 59)
    op,               \* bl_idname of the instance that returned, "" if none
    files,            \* self.files of that instance
    calls,            \* host operator calls made by that instance, in order
    running,          \* indices of calls whose import is still in progress
    report,           \* self.report calls of that instance
    result            \* what execute returned, "EXCEPTION" if it raised

vars == <<file_extensions, import_queue, op, files, calls, running, report, result>>

-----------------------------------------------------------------------------
\* Bounds

\* longest selection self.files handed to the import operator
MaxFiles == 2

-----------------------------------------------------------------------------
\* Characters and string primitives

\* "."
DOT == 46

\* "/"
SEP == 47

Range(s) == {s[i] : i \in 1..Len(s)}

\* str.lower on one character: "A".."Z" map to "a".."z"
lower_char(c) == IF c >= 65 /\ c <= 90 THEN c + 32 ELSE c

\* str.lower()
lower(s) == [i \in 1..Len(s) |-> lower_char(s[i])]

\* str.replace(".", "")
replace_dot(s) == SelectSeq(s, LAMBDA c : c # DOT)

\* str.endswith(suffix)
endswith(s, suffix) ==
    /\ Len(suffix) <= Len(s)
    /\ SubSeq(s, Len(s) - Len(suffix) + 1, Len(s)) = suffix

\* str.startswith(prefix)
startswith(s, prefix) ==
    /\ Len(prefix) <= Len(s)
    /\ SubSeq(s, 1, Len(prefix)) = prefix

\* str.rfind(c) + 1: position of the last c in s, 0 when there is none
rfind(s, c) ==
    LET hits == {i \in 1..Len(s) : s[i] = c}
    IN  IF hits = {} THEN 0 ELSE CHOOSE i \in hits : \A j \in hits : j <= i

\* str.find(c) + 1: position of the first c in s, 0 when there is none
find(s, c) ==
    LET hits == {i \in 1..Len(s) : s[i] = c}
    IN  IF hits = {} THEN 0 ELSE CHOOSE i \in hits : \A j \in hits : i <= j

\* str.split("."): the pieces between the dots; "" splits into [""]
RECURSIVE split(_)
split(s) ==
    LET i == find(s, DOT)
    IN  IF i = 0 THEN <<s>>
        ELSE <<SubSeq(s, 1, i - 1)>> \o split(SubSeq(s, i + 1, Len(s)))

\* sep.join(parts)
RECURSIVE join(_, _)
join(sep, parts) ==
    IF parts = <<>> THEN <<>>
    ELSE IF Len(parts) = 1 THEN parts[1]
    ELSE parts[1] \o sep \o join(sep, Tail(parts))

\* a < b on Python strings: lexicographic order of the character codes
str_lt(a, b) ==
    \E i \in 1..Len(b) :
        /\ \A j \in 1..(i - 1) : j <= Len(a) /\ a[j] = b[j]
        /\ (i > Len(a) \/ a[i] < b[i])

\* the keys left in the order the dict literal lists them
sorted_unsorted(keys) == keys

\* sorted(keys) for distinct strings: ascending by str_lt
RECURSIVE sorted(_)
sorted(keys) ==
    IF keys = <<>> THEN <<>>
    ELSE LET m == CHOOSE k \in Range(keys) :
                      \A o \in Range(keys) : o = k \/ str_lt(k, o)
         IN  <<m>> \o sorted(SelectSeq(keys, LAMBDA k : k # m))

\* os.path.splitext(p)[-1]: from the last dot on, unless only dots precede it
splitext_ext(p) ==
    LET sepIndex == rfind(p, SEP)
        dotIndex == rfind(p, DOT)
    IN  IF dotIndex > sepIndex
           /\ \E k \in (sepIndex + 1)..(dotIndex - 1) : p[k] # DOT
        THEN SubSeq(p, dotIndex, Len(p))
        ELSE <<>>

\* os.path.splitext(name)[-1][1:]
file_ext(name) ==
    LET e == splitext_ext(name)
    IN  IF e = <<>> THEN <<>> ELSE Tail(e)

\* str.rstrip("/")
RECURSIVE rstrip_sep(_)
rstrip_sep(s) ==
    IF s # <<>> /\ s[Len(s)] = SEP
    THEN rstrip_sep(SubSeq(s, 1, Len(s) - 1))
    ELSE s

\* os.path.dirname(p)
dirname(p) ==
    LET head == SubSeq(p, 1, rfind(p, SEP))
    IN  IF head # <<>> /\ \E k \in 1..Len(head) : head[k] # SEP
        THEN rstrip_sep(head)
        ELSE head

\* os.path.join(a, b)
path_join(a, b) ==
    IF startswith(b, <<SEP>>) THEN b
    ELSE IF a = <<>> \/ endswith(a, <<SEP>>) THEN a \o b
    ELSE a \o <<SEP>> \o b


-----------------------------------------------------------------------------
\* Literals of the source

\* the dict literal defaults of reset_extensions, as (key, value) pairs in
\* the order they are written
defaults == <<
    \* "bvh": "import_anim.bvh"
    <<<<98, 118, 104>>,
      <<105, 109, 112, 111, 114, 116, 95, 97, 110, 105, 109, 46, 98, 118, 104>>>>,
    \* "fbx": "import_scene.fbx"
    <<<<102, 98, 120>>,
      <<105, 109, 112, 111, 114, 116, 95, 115, 99, 101, 110, 101, 46, 102, 98, 120>>>>,
    \* "obj": "import_scene.obj"
    <<<<111, 98, 106>>,
      <<105, 109, 112, 111, 114, 116, 95, 115, 99, 101, 110, 101, 46, 111, 98, 106>>>>,
    \* "abc": "wm.alembic_import"
    <<<<97, 98, 99>>,
      <<119, 109, 46, 97, 108, 101, 109, 98, 105, 99, 95, 105, 109, 112, 111, 114, 116>>>>,
    \* "dae": "wm.collada_import"
    <<<<100, 97, 101>>,
      <<119, 109, 46, 99, 111, 108, 108, 97, 100, 97, 95, 105, 109, 112, 111, 114, 116>>>>,
    \* "stl": "import_mesh.stl"
    <<<<115, 116, 108>>,
      <<105, 109, 112, 111, 114, 116, 95, 109, 101, 115, 104, 46, 115, 116, 108>>>>,
    \* "svg": "import_curve.svg"
    <<<<115, 118, 103>>,
      <<105, 109, 112, 111, 114, 116, 95, 99, 117, 114, 118, 101, 46, 115, 118, 103>>>>,
    \* "dxf": "import_scene.dxf"
    <<<<100, 120, 102>>,
      <<105, 109, 112, 111, 114, 116, 95, 115, 99, 101, 110, 101, 46, 100, 120, 102>>>>,
    \* "ase": "import_ase.read"
    <<<<97, 115, 101>>,
      <<105, 109, 112, 111, 114, 116, 95, 97, 115, 101, 46, 114, 101, 97, 100>>>>,
    \* "mdd": "import_shape.mdd"
    <<<<109, 100, 100>>,
      <<105, 109, 112, 111, 114, 116, 95, 115, 104, 97, 112, 101, 46, 109, 100, 100>>>>,
    \* "chan": "import_scene.import_chan"
    <<<<99, 104, 97, 110>>,
      <<105, 109, 112, 111, 114, 116, 95, 115, 99, 101, 110, 101, 46, 105, 109, 112, 111, 114, 116, 95, 99, 104, 97, 110>>>>,
    \* "wrl": "import_scene.x3d"
    <<<<119, 114, 108>>,
      <<105, 109, 112, 111, 114, 116, 95, 115, 99, 101, 110, 101, 46, 120, 51, 100>>>>,
    \* "x3d": "import_scene.x3d"
    <<<<120, 51, 100>>,
      <<105, 109, 112, 111, 114, 116, 95, 115, 99, 101, 110, 101, 46, 120, 51, 100>>>>,
    \* "xyz": "import_mesh.xyz"
    <<<<120, 121, 122>>,
      <<105, 109, 112, 111, 114, 116, 95, 109, 101, 115, 104, 46, 120, 121, 122>>>>,
    \* "txt": "text.open"
    <<<<116, 120, 116>>,
      <<116, 101, 120, 116, 46, 111, 112, 101, 110>>>>,
    \* "rtf": "text.open"
    <<<<114, 116, 102>>,
      <<116, 101, 120, 116, 46, 111, 112, 101, 110>>>>,
    \* "py": "text.open"
    <<<<112, 121>>,
      <<116, 101, 120, 116, 46, 111, 112, 101, 110>>>>
>>

\* "Extension already defined"
MSG_ALREADY_DEFINED == <<69, 120, 116, 101, 110, 115, 105, 111, 110, 32, 97, 108, 114, 101, 97, 100, 121, 32, 100, 101, 102, 105, 110, 101, 100>>

\* "Extension {} missing, cannot remove".format(extension)
msg_missing(extension) ==
    <<69, 120, 116, 101, 110, 115, 105, 111, 110, 32>>
    \o extension \o
    <<32, 109, 105, 115, 115, 105, 110, 103, 44, 32, 99, 97, 110, 110, 111, 116, 32, 114, 101, 109, 111, 118, 101>>

\* "Extensions not associated: "
MSG_NOT_ASSOCIATED == <<69, 120, 116, 101, 110, 115, 105, 111, 110, 115, 32, 110, 111, 116, 32, 97, 115, 115, 111, 99, 105, 97, 116, 101, 100, 58, 32>>

\* ", "
COMMA_SPACE == <<44, 32>>

\* "()"
PARENS == <<40, 41>>

-----------------------------------------------------------------------------
\* Inputs

\* names the file selector can put in self.files:
\* "a.obj", "b.obj", "x.py", "copy"
FileNames == {
    <<97, 46, 111, 98, 106>>,
    <<98, 46, 111, 98, 106>>,
    <<120, 46, 112, 121>>,
    <<99, 111, 112, 121>>
}

\* self.filepath of the import operator: "/d/a.obj"
FilePaths == {<<47, 100, 47, 97, 46, 111, 98, 106>>}

\* self.extension typed into the add dialog: "foo", ".Foo", "obj"
AddInputs == {
    <<102, 111, 111>>,
    <<46, 70, 111, 111>>,
    <<111, 98, 106>>
}

\* self.extension of remove_extension: "obj", "foo"
RemoveInputs == {
    <<111, 98, 106>>,
    <<102, 111, 111>>
}

\* extensions whose operator field the user edits in the panel: "obj"
EditExtensions == {
    <<111, 98, 106>>
}

\* text typed into an operator field: "text.open", "bpy.ops.text.open()", "text"
OperatorInputs == {
    <<116, 101, 120, 116, 46, 111, 112, 101, 110>>,
    <<98, 112, 121, 46, 111, 112, 115, 46, 116, 101, 120, 116, 46, 111, 112, 101, 110, 40, 41>>,
    <<116, 101, 120, 116>>
}

-----------------------------------------------------------------------------
\* Helpers over the preference collection

\* [ext.extension for ext in prefs.file_extensions]
curr_exts(prefs) == {prefs[i].extension : i \in 1..Len(prefs)}

\* defaults[ext]
defaults_get(ext) ==
    LET i == CHOOSE i \in 1..Len(defaults) : defaults[i][1] = ext
    IN  defaults[i][2]

\* the keys of defaults, in the order the literal lists them
defaults_keys == [i \in 1..Len(defaults) |-> defaults[i][1]]

\* update callback of FileAssociation.operator:
\* "bpy.ops.import_scene.obj()" becomes "import_scene.obj"
operator_code_update(operator) ==
    LET truncate_suffix == endswith(operator, PARENS)
        parts == split(operator)
        new_base == IF Len(parts) = 4
                    THEN join(<<DOT>>, SubSeq(parts, 3, 4))
                    ELSE <<>>
    IN  IF new_base # <<>> /\ truncate_suffix
            THEN SubSeq(new_base, 1, Len(new_base) - 2)
        ELSE IF new_base # <<>>
            THEN new_base
        ELSE IF truncate_suffix
            THEN SubSeq(operator, 1, Len(operator) - 2)
        ELSE operator

\* the collection reset_extensions leaves behind: cleared, then one entry per
\* key of defaults in sorted order
reset_file_extensions ==
    LET order == sorted(defaults_keys)
    IN  [i \in 1..Len(order) |->
            [extension |-> order[i],
             operator  |-> operator_code_update(defaults_get(order[i]))]]

-----------------------------------------------------------------------------
\* The import operator

\* what hasattr(props, "filepath" / "directory" / "files") can answer
PropsCombos == [bfilepath : BOOLEAN, bdirectory : BOOLEAN, bfiles : BOOLEAN]

\* what a host operator invoked with 'INVOKE_DEFAULT' returns: the import is
\* done, or it goes on after the call has returned
Returns == {"FINISHED", "RUNNING_MODAL"}

\* all orders in which "for ext in extensions" can visit the set
Orders(S) == {s \in [1..Cardinality(S) -> S] : Range(s) = S}

\* the values self.files can take: lists of distinct names
Selections ==
    UNION {{s \in [1..n -> FileNames] :
                \A i, j \in 1..n : i # j => s[i] # s[j]} : n \in 0..MaxFiles}

\* import_single(self, context, ext); self carries files, directory and the
\* preferences, props and ret are the host's answers for this extension.
\* Yields raised = TRUE when the method raises before calling the operator.
import_single(self, ext, props, ret) ==
    LET sel   == SelectSeq(self.files, LAMBDA name : endswith(name, ext))
        hits  == {i \in 1..Len(self.prefs) : self.prefs[i].extension = ext}
        first == CHOOSE i \in hits : \A j \in hits : i <= j
        oper  == self.prefs[first].operator
        named == [i \in 1..Len(sel) |-> [name |-> sel[i]]]
        none  == [keys |-> {}, filepath |-> <<>>, directory |-> <<>>,
                  files |-> <<>>]
        needs_first ==
            props.bfilepath
        kwargs ==
            IF props.bfilepath /\ props.bdirectory /\ props.bfiles THEN
                [keys      |-> {"filepath", "directory", "files"},
                 filepath  |-> path_join(self.directory, sel[1]),
                 directory |-> self.directory,
                 files     |-> named]
            ELSE IF props.bfilepath /\ props.bdirectory /\ ~props.bfiles THEN
                [keys      |-> {"filepath", "directory"},
                 filepath  |-> sel[1],
                 directory |-> self.directory,
                 files     |-> <<>>]
            ELSE IF props.bfilepath /\ ~props.bdirectory THEN
                [keys      |-> {"filepath"},
                 filepath  |-> path_join(self.directory, sel[1]),
                 directory |-> <<>>,
                 files     |-> <<>>]
            ELSE IF props.bfiles /\ props.bdirectory THEN
                [keys      |-> {"files", "directory"},
                 filepath  |-> <<>>,
                 directory |-> self.directory,
                 files     |-> named]
            ELSE none
    IN  IF needs_first /\ sel = <<>> THEN
            \* files[0] raises IndexError
            [raised |-> TRUE]
        ELSE IF Len(split(oper)) # 2 THEN
            \* base, oprs = oper.split(".") raises ValueError
            [raised |-> TRUE]
        ELSE
            [raised |-> FALSE,
             call   |-> [ext    |-> ext,
                         files  |-> sel,
                         oper   |-> oper,
                         args   |-> <<"INVOKE_DEFAULT">>,
                         kwargs |-> kwargs,
                         ret    |-> ret]]

\* the loop "for ext in extensions" of execute, visiting the set in the given
\* order; acc carries the calls made, ext_missing and whether a call raised
RECURSIVE for_ext_in_extensions(_, _, _, _, _)
for_ext_in_extensions(order, self, props, rets, acc) ==
    IF order = <<>> \/ acc.raised THEN acc
    ELSE
        LET ext == Head(order)
        IN  IF ext \notin curr_exts(self.prefs) THEN
                for_ext_in_extensions(Tail(order), self, props, rets,
                    [acc EXCEPT !.ext_missing = Append(@, ext)])
            ELSE
                LET r == import_single(self, ext, props[ext], rets[ext])
                IN  IF r.raised THEN [acc EXCEPT !.raised = TRUE]
                    ELSE for_ext_in_extensions(Tail(order), self, props, rets,
                            [acc EXCEPT !.calls = Append(@, r.call)])

\* IMPORT_OT_import_any_file.execute with self.files = sel and
\* self.filepath = filepath
IMPORT_OT_import_any_file(sel, filepath) ==
    LET prefs == IF file_extensions = <<>>
                 THEN reset_file_extensions
                 ELSE file_extensions
        extensions == {file_ext(sel[i]) : i \in 1..Len(sel)}
        dispatched == extensions \cap curr_exts(prefs)
        self == [files     |-> sel,
                 directory |-> dirname(filepath),
                 prefs     |-> prefs]
        start == [calls |-> <<>>, ext_missing |-> <<>>, raised |-> FALSE]
    IN  /\ op = ""
        /\ op' = "import_any.file"
        /\ files' = sel
        /\ file_extensions' = prefs
        /\ UNCHANGED import_queue
        /\ IF sel = <<>> THEN
               \* print(self.files[0]) raises IndexError
               /\ calls' = <<>>
               /\ running' = {}
               /\ report' = <<>>
               /\ result' = "EXCEPTION"
           ELSE
               \E order \in Orders(extensions),
                  props \in [dispatched -> PropsCombos],
                  rets \in [dispatched -> Returns] :
                   LET out == for_ext_in_extensions(order, self, props, rets,
                                                    start)
                   IN  /\ calls' = out.calls
                       /\ running' = {i \in 1..Len(out.calls) :
                                         out.calls[i].ret = "RUNNING_MODAL"}
                       /\ report' =
                            IF ~out.raised /\ out.ext_missing # <<>>
                            THEN <<[type    |-> "WARNING",
                                    message |-> MSG_NOT_ASSOCIATED \o
                                        join(COMMA_SPACE, out.ext_missing)]>>
                            ELSE <<>>
                       /\ result' = IF out.raised THEN "EXCEPTION"
                                    ELSE "FINISHED"

\* an import started by a call of this run completes
ModalFinish(i) ==
    /\ i \in running
    /\ running' = running \ {i}
    /\ UNCHANGED <<file_extensions, import_queue, op, files, calls, report,
                   result>>

\* the host drops the operator instance that returned
FreeOperator ==
    /\ op # ""
    /\ op' = ""
    /\ files' = <<>>
    /\ calls' = <<>>
    /\ running' = {}
    /\ report' = <<>>
    /\ result' = ""
    /\ UNCHANGED <<file_extensions, import_queue>>

-----------------------------------------------------------------------------
\* The preference operators

\* IMPORT_OT_import_any_reset_extensions.execute
IMPORT_OT_import_any_reset_extensions ==
    /\ op = ""
    /\ op' = "import_any.reset_extensions"
    /\ file_extensions' = reset_file_extensions
    /\ report' = <<>>
    /\ result' = "FINISHED"
    /\ UNCHANGED <<import_queue, files, calls, running>>

\* add_extension without the "already defined" test
IMPORT_OT_import_any_add_extension_unchecked(extension) ==
    LET this_ext == lower(replace_dot(extension))
    IN  /\ op = ""
        /\ op' = "import_any.add_extension"
        /\ file_extensions' = Append(file_extensions,
               [extension |-> this_ext,
                operator  |-> operator_code_update(<<>>)])
        /\ report' = <<>>
        /\ result' = "FINISHED"
        /\ UNCHANGED <<import_queue, files, calls, running>>

\* IMPORT_OT_import_any_add_extension.execute with self.extension = extension
IMPORT_OT_import_any_add_extension(extension) ==
    LET this_ext == lower(replace_dot(extension))
    IN  /\ op = ""
        /\ op' = "import_any.add_extension"
        /\ IF this_ext \in curr_exts(file_extensions) THEN
               /\ report' = <<[type |-> "ERROR",
                               message |-> MSG_ALREADY_DEFINED]>>
               /\ result' = "CANCELLED"
               /\ UNCHANGED file_extensions
           ELSE
               /\ file_extensions' = Append(file_extensions,
                      [extension |-> this_ext,
                       operator  |-> operator_code_update(<<>>)])
               /\ report' = <<>>
               /\ result' = "FINISHED"
        /\ UNCHANGED <<import_queue, files, calls, running>>

\* IMPORT_OT_import_any_remove_extension.execute with
\* self.extension = extension
IMPORT_OT_import_any_remove_extension(extension) ==
    LET hits == {i \in 1..Len(file_extensions) :
                    file_extensions[i].extension = extension}
    IN  /\ op = ""
        /\ op' = "import_any.remove_extension"
        /\ IF hits # {} THEN
               LET pop == CHOOSE i \in hits : \A j \in hits : i <= j
               IN  /\ file_extensions' =
                        SubSeq(file_extensions, 1, pop - 1) \o
                        SubSeq(file_extensions, pop + 1, Len(file_extensions))
                   /\ report' = <<>>
                   /\ result' = "FINISHED"
           ELSE
               /\ report' = <<[type |-> "ERROR",
                               message |-> msg_missing(extension)]>>
               /\ result' = "CANCELLED"
               /\ UNCHANGED file_extensions
        /\ UNCHANGED <<import_queue, files, calls, running>>

\* the user types text into the operator field of entry i of the panel; the
\* property's update callback then rewrites it
SetOperator(i, text) ==
    /\ i \in 1..Len(file_extensions)
    /\ op = ""
    /\ file_extensions[i].extension \in EditExtensions
    /\ file_extensions' =
          [file_extensions EXCEPT ![i].operator = operator_code_update(text)]
    /\ UNCHANGED <<import_queue, op, files, calls, running, report, result>>

-----------------------------------------------------------------------------
\* Specification

Init ==
    /\ file_extensions = <<>>
    /\ import_queue = <<>>
    /\ op = ""
    /\ files = <<>>
    /\ calls = <<>>
    /\ running = {}
    /\ report = <<>>
    /\ result = ""

Next ==
    \/ \E sel \in Selections, filepath \in FilePaths :
           IMPORT_OT_import_any_file(sel, filepath)
    \/ \E i \in 1..MaxFiles : ModalFinish(i)
    \/ FreeOperator
    \/ IMPORT_OT_import_any_reset_extensions
    \/ \E extension \in AddInputs :
           IMPORT_OT_import_any_add_extension(extension)
    \/ \E extension \in RemoveInputs :
           IMPORT_OT_import_any_remove_extension(extension)
    \/ \E i \in 1..(Len(defaults) + Cardinality(AddInputs)),
          text \in OperatorInputs : SetOperator(i, text)

Spec == Init /\ [][Next]_vars

TypeOK ==
    /\ \A i \in 1..Len(file_extensions) :
           DOMAIN file_extensions[i] = {"extension", "operator"}
    /\ import_queue = <<>>
    /\ running \subseteq 1..Len(calls)
    /\ result \in {"", "FINISHED", "CANCELLED", "EXCEPTION"}

-----------------------------------------------------------------------------
\* Properties

\* C1: when the import operator has run, every selected file whose extension
\* has an association in the store appears, by name, in the filepath or the
\* files argument of a call made to the operator configured for its
\* extension, whatever parameters that operator exposes.
C1_EveryAssociatedFileIsPassed ==
    op = "import_any.file" =>
        \A i \in 1..Len(files) :
            LET ext == file_ext(files[i])
            IN  ext \in curr_exts(file_extensions) =>
                    \E k \in 1..Len(calls), p \in 1..Len(file_extensions) :
                        /\ file_extensions[p].extension = ext
                        /\ calls[k].oper = file_extensions[p].operator
                        /\ \/ /\ "filepath" \in calls[k].kwargs.keys
                              /\ LET path == calls[k].kwargs.filepath
                                 IN  SubSeq(path, rfind(path, SEP) + 1,
                                            Len(path)) = files[i]
                           \/ /\ "files" \in calls[k].kwargs.keys
                              /\ [name |-> files[i]] \in
                                     Range(calls[k].kwargs.files)

\* C2: every group import_single collects is exactly the set of selected
\* files whose extension equals the group's extension, and no file is in two
\* groups of one run.
C2_GroupsAreExactlyByExtension ==
    op = "import_any.file" =>
        /\ \A k \in 1..Len(calls) :
               Range(calls[k].files) =
                   {f \in Range(files) : file_ext(f) = calls[k].ext}
        /\ \A k, l \in 1..Len(calls) :
               k # l => Range(calls[k].files) \cap Range(calls[l].files) = {}

\* C3: no two associations of prefs.file_extensions have the same extension.
C3_ExtensionsAreUnique ==
    \A i, j \in 1..Len(file_extensions) :
        i # j => file_extensions[i].extension # file_extensions[j].extension

\* C3 witness: add_extension met an extension that is already in a non-empty
\* store and cancelled.
C3_Witness ==
    /\ op = "import_any.add_extension"
    /\ result = "CANCELLED"
    /\ Len(file_extensions) > 1

\* C4: the imports of one run are queued: a call for the next group is made
\* only once the import of the previous group has completed, so at most one
\* import of the run is in progress at any time.
C4_OneImportAtATime ==
    /\ Cardinality(running) <= 1
    /\ \A k \in 1..(Len(calls) - 1) : calls[k].ret # "RUNNING_MODAL"

\* C5: when some selected file has an extension without association, execute
\* returns FINISHED, has called an operator for exactly the associated
\* extensions of the selection, and has reported one WARNING listing exactly
\* the unassociated ones; when there is none it reports nothing.
C5_MissingExtensionsAreReported ==
    op = "import_any.file" /\ files # <<>> =>
        LET exts    == {file_ext(files[i]) : i \in 1..Len(files)}
            missing == exts \ curr_exts(file_extensions)
        IN  /\ missing = {} => report = <<>>
            /\ missing # {} =>
                   /\ result = "FINISHED"
                   /\ {calls[k].ext : k \in 1..Len(calls)} = exts \ missing
                   /\ Len(report) = 1
                   /\ report[1].type = "WARNING"
                   /\ \E o \in Orders(missing) :
                          report[1].message =
                              MSG_NOT_ASSOCIATED \o join(COMMA_SPACE, o)

\* C6: an import run that starts with an empty store leaves the 17 default
\* associations in it, in ascending order of extension, and resolves the
\* selection against them: every selected file with a default extension is
\* in a call to that extension's default operator, and the warning, if any,
\* lists only the extensions that are not defaults.
C6_EmptyStoreGetsDefaults ==
    [][(file_extensions = <<>> /\ op' = "import_any.file") =>
          LET keys == {defaults[i][1] : i \in 1..Len(defaults)}
              exts == {file_ext(files'[i]) : i \in 1..Len(files')}
          IN  /\ Len(file_extensions') = 17
              /\ curr_exts(file_extensions') = keys
              /\ \A i \in 1..Len(file_extensions') :
                     file_extensions'[i].operator =
                         defaults_get(file_extensions'[i].extension)
              /\ \A i, j \in 1..Len(file_extensions') :
                     i < j => str_lt(file_extensions'[i].extension,
                                     file_extensions'[j].extension)
              /\ \A i \in 1..Len(files') :
                     file_ext(files'[i]) \in keys =>
                         \E k \in 1..Len(calls') :
                             /\ calls'[k].ext = file_ext(files'[i])
                             /\ calls'[k].oper =
                                    defaults_get(file_ext(files'[i]))
                             /\ files'[i] \in Range(calls'[k].files)
              /\ \/ report' = <<>>
                 \/ \E o \in Orders(exts \ keys) :
                        /\ o # <<>>
                        /\ report' = <<[type |-> "WARNING",
                                        message |-> MSG_NOT_ASSOCIATED \o
                                            join(COMMA_SPACE, o)]>>
       ]_vars

\* C6 witness: an import run over a selection holding "a.obj" has finished
\* with the default table in the store and a call to "import_scene.obj".
C6_Witness ==
    /\ op = "import_any.file"
    /\ result = "FINISHED"
    /\ file_extensions = reset_file_extensions
    /\ <<97, 46, 111, 98, 106>> \in Range(files)
    /\ \E k \in 1..Len(calls) :
           /\ calls[k].ext = <<111, 98, 106>>
           /\ calls[k].oper = <<105, 109, 112, 111, 114, 116, 95, 115, 99, 101, 110, 101, 46, 111, 98, 106>>
           /\ <<97, 46, 111, 98, 106>> \in Range(calls[k].files)

====
